---- MODULE Spec2Model ----
(***************************************************************************)
(* Model of brute_force_solve (src/sudoku.py): a recursive backtracking    *)
(* sudoku solver working in place on one shared 9x9 array.  The array is   *)
(* indexed sudoku[x, y] (column, row), 0 means unknown.                    *)
(*                                                                         *)
(* The recursion is modelled with an explicit call stack; every frame      *)
(* holds the locals of one invocation (x, y, potential_values, the index i *)
(* of the second loop) and its position pc:                                *)
(*    "scan"  lines 102-104, looking for the first zero cell               *)
(*    "loop"  lines 119-120, at the head of the candidate loop, i being    *)
(*            the number of iterations done                                *)
(*    "call"  line 122, waiting for the recursive call it made             *)
(***************************************************************************)
EXTENDS Integers, Sequences, FiniteSets, TLC

N == 9
B == 3
Idx == 0 .. (N - 1)
Cells == Idx \X Idx

\* Largest number of unknown (zero) cells of an input grid.
MaxUnknown == 4

(***************************************************************************)
(* Input grids.  parse_input yields any 9x9 array of digits 0..9; the      *)
(* inputs explored are a complete legal grid with up to MaxUnknown cells   *)
(* of Pool cleared and at most one cell of OverwritePool set to any digit. *)
(***************************************************************************)
SolvedRows ==
  << <<5,3,4,6,7,8,9,1,2>>,
     <<6,7,2,1,9,5,3,4,8>>,
     <<1,9,8,3,4,2,5,6,7>>,
     <<8,5,9,7,6,1,4,2,3>>,
     <<4,2,6,8,5,3,7,9,1>>,
     <<7,1,3,9,2,4,8,5,6>>,
     <<9,6,1,5,3,7,2,8,4>>,
     <<2,8,7,4,1,9,6,3,5>>,
     <<3,4,5,2,8,6,1,7,9>> >>

\* sudoku[col, row] = int(c)
Solved == [x \in Idx |-> [y \in Idx |-> SolvedRows[y + 1][x + 1]]]

Pool == { <<3,0>>, <<4,0>>, <<3,3>>, <<4,3>>, <<4,2>>, <<5,2>>, <<4,5>>, <<5,5>> }
OverwritePool == { <<3,0>>, <<4,2>>, <<5,5>> }

Clear(s, S) == [x \in Idx |-> [y \in Idx |-> IF <<x, y>> \in S THEN 0 ELSE s[x][y]]]

Unknowns(s) == { c \in Cells : s[c[1]][c[2]] = 0 }

Inputs(pool, overwrite) ==
  LET cleared == { Clear(Solved, S) : S \in { T \in SUBSET pool : Cardinality(T) <= MaxUnknown } }
      written == { [g EXCEPT ![c[1]][c[2]] = v] : g \in cleared, c \in overwrite, v \in 1 .. N }
  IN  cleared \cup written

InputGrids == Inputs(Pool, OverwritePool)

\* A smaller family of the same shape, for the runs that check termination.
FairPool == { <<3,0>>, <<4,0>>, <<3,3>>, <<4,3>>, <<4,2>> }
FairOverwritePool == { <<3,0>>, <<4,2>> }
FairInputGrids == Inputs(FairPool, FairOverwritePool)

(***************************************************************************)
(* The pieces of brute_force_solve.                                        *)
(***************************************************************************)

\* Position of a cell in the scan order of the two for loops: y outer, x inner.
ScanOrder(c) == c[2] * N + c[1]

\* Column and row index of the i-th cell read by the box check.
BoxX(x, i) == B * (x \div B) + (i \div B)
\* Slip: i // 3 used for the row index too.
BoxYDiv(y, i) == B * (y \div B) + (i \div B)
BoxY(y, i) == B * (y \div B) + (i % B)

\* Values read in iteration i of the first loop.
RowVal(s, x, y, i) == s[i][y]
\* Slip: the column check reads sudoku[i, y], as the row check does.
ColValAsRow(s, x, y, i) == s[i][y]
ColVal(s, x, y, i) == s[x][i]
BoxVal(s, x, y, i) == s[BoxX(x, i)][BoxY(y, i)]

\* Index of potential_values written for a value seen.
\* Slip: potential_values[val], the - 1 forgotten.
PvIndexOff(val) == val
PvIndex(val) == val - 1

\* Python list indexing: -N .. -1 wrap around, anything else outside 0 .. N-1
\* raises IndexError.
IndexValid(j) == j >= -N /\ j < N
ListIndex(j) == IF j < 0 THEN j + N ELSE j

\* if val != 0: potential_values[val-1] = False
Mark(pv, val) ==
  IF val # 0 /\ IndexValid(PvIndex(val))
    THEN [pv EXCEPT ![ListIndex(PvIndex(val))] = FALSE]
    ELSE pv

RECURSIVE CheckLoop(_, _, _, _, _)
CheckLoop(s, x, y, pv, i) ==
  IF i = N THEN pv
  ELSE CheckLoop(s, x, y,
                 Mark(Mark(Mark(pv, RowVal(s, x, y, i)), ColVal(s, x, y, i)), BoxVal(s, x, y, i)),
                 i + 1)

\* potential_values after the first loop, for the unknown cell (x, y).
PotentialValues(s, x, y) == CheckLoop(s, x, y, [j \in Idx |-> TRUE], 0)

\* The first loop raises IndexError when it indexes outside an array.
Raises(s, x, y) ==
  \E i \in Idx :
     \/ BoxX(x, i) \notin Idx
     \/ BoxY(y, i) \notin Idx
     \/ \E val \in { RowVal(s, x, y, i), ColVal(s, x, y, i), BoxVal(s, x, y, i) } :
           val # 0 /\ ~IndexValid(PvIndex(val))

\* The value of i in iteration k (from 0) of "for i in range(9)", line 119.
\* Slip: reversed(range(9)).
LoopIReversed(k) == N - 1 - k
LoopI(k) == k

\* sudoku[x, y] = i + 1
\* Slip: sudoku[y, x] = i + 1.
AssignTransposed(s, x, y, i) == [s EXCEPT ![y][x] = i + 1]
Assign(s, x, y, i) == [s EXCEPT ![x][y] = i + 1]

\* sudoku[x, y] = 0
\* Slip: the reset of line 125 forgotten.
UndoForgotten(s, x, y) == s
Undo(s, x, y) == [s EXCEPT ![x][y] = 0]

\* if sudoku[x, y] == 0
\* Slip: the test negated.
IsUnknownNegated(v) == v # 0
IsUnknown(v) == v = 0

\* The cells that pass the test of line 104.
ZeroCells(s) == { c \in Cells : IsUnknown(s[c[1]][c[2]]) }

\* The scan of lines 102-104 meets a cell that passes the test.
HasUnknown(s) == ZeroCells(s) # {}

\* The first cell the scan meets that passes the test.
FirstZero(s) ==
  CHOOSE c \in ZeroCells(s) : \A d \in ZeroCells(s) : ScanOrder(c) <= ScanOrder(d)

(***************************************************************************)
(* State.                                                                  *)
(***************************************************************************)
VARIABLES
  sudoku,   \* the shared array
  stack,    \* active invocations of brute_force_solve, outermost first
  ret,      \* value returned by the invocation that ended last
  input,    \* the array as main handed it to the solver
  ncand,    \* number of potential_values computed so far
  nwrite,   \* number of cell writes so far
  ncall     \* number of recursive calls so far

vars == << sudoku, stack, ret, input, ncand, nwrite, ncall >>

NewFrame(s) ==
  [ pc |-> "scan", x |-> 0, y |-> 0, i |-> 0,
    potential_values |-> [j \in Idx |-> TRUE],
    entry |-> s ]

Top == stack[Len(stack)]
Pop == SubSeq(stack, 1, Len(stack) - 1)
SetTop(f) == [stack EXCEPT ![Len(stack)] = f]

\* solution = brute_force_solve(sudoku)   (main)
Start(grids) ==
  /\ sudoku \in grids
  /\ input = sudoku
  /\ stack = << NewFrame(sudoku) >>
  /\ ret = "pending"
  /\ ncand = 0
  /\ nwrite = 0
  /\ ncall = 0

Init == Start(InputGrids)

FairInit == Start(FairInputGrids)

\* Lines 102-117: the scan meets a zero cell and computes potential_values.
FindUnknown ==
  /\ stack # << >>
  /\ Top.pc = "scan"
  /\ HasUnknown(sudoku)
  /\ LET c == FirstZero(sudoku) IN
       IF Raises(sudoku, c[1], c[2])
         THEN /\ stack' = << >>
              /\ ret' = "raised"
         ELSE /\ stack' = SetTop([Top EXCEPT !.pc = "loop", !.x = c[1], !.y = c[2], !.i = 0,
                                  !.potential_values = PotentialValues(sudoku, c[1], c[2])])
              /\ ret' = ret
  /\ ncand' = ncand + 1
  /\ UNCHANGED << sudoku, input, nwrite, ncall >>

\* Slip: line 129 forgotten, the function falls off its end and returns None.
ReturnSolvedFallsOff ==
  /\ stack # << >>
  /\ Top.pc = "scan"
  /\ ~HasUnknown(sudoku)
  /\ stack' = Pop
  /\ ret' = "None"
  /\ UNCHANGED << sudoku, input, ncand, nwrite, ncall >>

\* Lines 102-104, 129: the scan meets no zero cell, the array is returned.
ReturnSolved ==
  /\ stack # << >>
  /\ Top.pc = "scan"
  /\ ~HasUnknown(sudoku)
  /\ stack' = Pop
  /\ ret' = "sudoku"
  /\ UNCHANGED << sudoku, input, ncand, nwrite, ncall >>

\* Lines 119-120: potential_values[i] is false, next i.
SkipValue ==
  /\ stack # << >>
  /\ Top.pc = "loop"
  /\ Top.i < N
  /\ ~Top.potential_values[LoopI(Top.i)]
  /\ stack' = SetTop([Top EXCEPT !.i = Top.i + 1])
  /\ UNCHANGED << sudoku, ret, input, ncand, nwrite, ncall >>

\* Lines 120-122: potential_values[i] is true, write i + 1 and recurse.
TryValue ==
  /\ stack # << >>
  /\ Top.pc = "loop"
  /\ Top.i < N
  /\ Top.potential_values[LoopI(Top.i)]
  /\ sudoku' = Assign(sudoku, Top.x, Top.y, LoopI(Top.i))
  /\ stack' = Append(SetTop([Top EXCEPT !.pc = "call"]), NewFrame(sudoku'))
  /\ ret' = "pending"
  /\ nwrite' = nwrite + 1
  /\ ncall' = ncall + 1
  /\ UNCHANGED << input, ncand >>

\* Lines 123-124: the recursive call returned the array, return it.
ReturnSolution ==
  /\ stack # << >>
  /\ Top.pc = "call"
  /\ ret = "sudoku"
  /\ stack' = Pop
  /\ UNCHANGED << sudoku, ret, input, ncand, nwrite, ncall >>

\* Lines 123, 125: the recursive call returned None, reset the cell, next i.
Revert ==
  /\ stack # << >>
  /\ Top.pc = "call"
  /\ ret = "None"
  /\ sudoku' = Undo(sudoku, Top.x, Top.y)
  /\ stack' = SetTop([Top EXCEPT !.pc = "loop", !.i = Top.i + 1])
  /\ ret' = "pending"
  /\ nwrite' = nwrite + 1
  /\ UNCHANGED << input, ncand, ncall >>

\* Line 127: the candidate loop is over, return None.
ReturnNone ==
  /\ stack # << >>
  /\ Top.pc = "loop"
  /\ Top.i = N
  /\ stack' = Pop
  /\ ret' = "None"
  /\ UNCHANGED << sudoku, input, ncand, nwrite, ncall >>

Next ==
  \/ FindUnknown
  \/ ReturnSolved
  \/ SkipValue
  \/ TryValue
  \/ ReturnSolution
  \/ Revert
  \/ ReturnNone

Spec == Init /\ [][Next]_vars

\* The interpreter runs the single thread until the top-level call is over.
FairSpec == FairInit /\ [][Next]_vars /\ WF_vars(Next)

\* The top-level call has returned.
Done == stack = << >>

(***************************************************************************)
(* Vocabulary of the properties: rows, columns, blocks, legality,          *)
(* solutions and completions, written from their definitions and not from  *)
(* the solver's arithmetic.                                                *)
(***************************************************************************)
At(s, c) == s[c[1]][c[2]]

RowCells(y) == { <<x, y>> : x \in Idx }
ColCells(x) == { <<x, y>> : y \in Idx }
BlockCells(x, y) ==
  { <<B * (x \div B) + dx, B * (y \div B) + dy>> : dx \in 0 .. (B - 1), dy \in 0 .. (B - 1) }

Units ==
  { RowCells(y) : y \in Idx } \cup { ColCells(x) : x \in Idx }
    \cup { BlockCells(B * bx, B * by) : bx \in 0 .. (B - 1), by \in 0 .. (B - 1) }

\* No non-zero value is repeated within a row, a column or a block.
Legal(s) ==
  \A u \in Units :
     Cardinality({ c \in u : At(s, c) # 0 }) = Cardinality({ At(s, c) : c \in u } \ {0})

\* Every row, column and block is a permutation of 1 .. 9.
IsSolution(s) == \A u \in Units : { At(s, c) : c \in u } = 1 .. N

\* Digits absent from the row, the column and the block of (x, y).
RefCandidates(s, x, y) ==
  (1 .. N) \ { At(s, c) : c \in RowCells(y) \cup ColCells(x) \cup BlockCells(x, y) }

\* The digits potential_values leaves true.
CandidateSet(pv) == { d \in 1 .. N : pv[d - 1] }

\* Every way to fill the cells of U with digits that the fixed cells of s0 allow.
RECURSIVE Fills(_, _, _)
Fills(s0, s, U) ==
  IF U = {} THEN { s }
  ELSE LET c == CHOOSE c \in U : TRUE
       IN  UNION { Fills(s0, [s EXCEPT ![c[1]][c[2]] = d], U \ {c}) :
                     d \in RefCandidates(s0, c[1], c[2]) }

\* The legal completions of s: the solutions that agree with s on its fixed cells.
Completions(s) == { g \in Fills(s, s, Unknowns(s)) : IsSolution(g) }

\* Row-major position: all x for y = 0, then y = 1, ...
RowMajor(c) == c[2] * N + c[1]

\* g comes before h when their digits in the cells of U are read row-major.
LexLess(g, h, U) ==
  \E c \in U :
     /\ At(g, c) < At(h, c)
     /\ \A d \in U : RowMajor(d) < RowMajor(c) => At(g, d) = At(h, d)

NumUnknown == Cardinality(Unknowns(input))

\* Cells the solver has filled and not reset.
AssignedCells == { c \in Cells : At(input, c) = 0 /\ At(sudoku, c) # 0 }

\* C1: whenever brute_force_solve returns a grid, every row, column and block
\* of that grid is a permutation of 1..9 (no false positive), for every
\* well-formed input.
C1_ReturnedGridIsSolution ==
  (Done /\ ret = "sudoku") => IsSolution(sudoku)

\* C2: for every grid obtained from a complete solution by clearing cells,
\* brute_force_solve returns a grid with no zero cell in which every fixed cell
\* of the input keeps its value.
C2_DerivedGridIsCompleted ==
  (Done /\ Completions(input) # {}) =>
     /\ ret = "sudoku"
     /\ Unknowns(sudoku) = {}
     /\ \A c \in Cells : At(input, c) # 0 => At(sudoku, c) = At(input, c)

C2_Witness ==
  /\ Done
  /\ ret = "sudoku"
  /\ NumUnknown >= 3
  /\ \A c \in Cells : At(input, c) \in {0, At(Solved, c)}

\* C3: every input with two equal fixed digits in one row, column or block
\* makes brute_force_solve return None, whatever the number of unknown cells.
C3_ConflictYieldsNone ==
  (Done /\ ~Legal(input)) => ret = "None"

\* C4: a legal input without zero cell is returned unchanged, and no candidate
\* set is computed, no cell is written and no recursive call is made.
C4_SolvedInputUntouched ==
  (Unknowns(input) = {} /\ Legal(input)) =>
     /\ sudoku = input
     /\ ncand = 0 /\ nwrite = 0 /\ ncall = 0
     /\ ret # "None"
     /\ Done => ret = "sudoku"

C4_Witness ==
  Done /\ Unknowns(input) = {} /\ Legal(input) /\ ret = "sudoku" /\ sudoku = input

\* C5: if the input is legal, every grid reached during the search, after each
\* assignment and each revert, is legal.
C5_SearchKeepsLegality ==
  Legal(input) => Legal(sudoku)

\* A candidate was tried and reverted, a later one has just been assigned.
C5_Witness ==
  /\ Legal(input)
  /\ Len(stack) >= 2
  /\ nwrite >= 3
  /\ LET f == stack[Len(stack) - 1]
     IN  /\ f.pc = "call"
         /\ \E j \in 0 .. (f.i - 1) : f.potential_values[LoopI(j)]

\* C6: an invocation that returns None leaves the grid as it was on its entry;
\* after a top-level None the grid is the input.
C6_NoneRestoresGrid ==
  [][ (ret' = "None" /\ Len(stack') < Len(stack)) =>
        /\ sudoku' = stack[Len(stack)].entry
        /\ stack' = << >> => sudoku' = input ]_vars

\* A top-level None after assignments and reverts.
C6_Witness ==
  Done /\ ret = "None" /\ nwrite >= 4 /\ sudoku = input

\* For every cell the indices of line 115 are the 9 cells of its block, each once.
BoxIndicesExact ==
  \A c \in Cells :
     /\ { <<BoxX(c[1], i), BoxY(c[2], i)>> : i \in Idx } = BlockCells(c[1], c[2])
     /\ \A i \in Idx : \A k \in Idx :
           (BoxX(c[1], i) = BoxX(c[1], k) /\ BoxY(c[2], i) = BoxY(c[2], k)) => i = k

\* C7: the candidate set computed for an unknown cell is the set of digits
\* absent from its row, its column and its block, and the box indices of
\* line 115 enumerate the 9 cells of the block, each once.
C7_CandidatesMatchReference ==
  /\ \A j \in 1 .. Len(stack) :
        stack[j].pc # "scan" =>
           CandidateSet(stack[j].potential_values)
             = RefCandidates(stack[j].entry, stack[j].x, stack[j].y)
  /\ \A c \in Unknowns(sudoku) :
        /\ ~Raises(sudoku, c[1], c[2])
        /\ CandidateSet(PotentialValues(sudoku, c[1], c[2])) = RefCandidates(sudoku, c[1], c[2])
  /\ BoxIndicesExact

\* A candidate set of two digits or more has been computed.
C7_Witness ==
  /\ stack # << >>
  /\ Top.pc = "loop"
  /\ Cardinality(CandidateSet(Top.potential_values)) >= 2
  /\ Cardinality(CandidateSet(Top.potential_values)) < N

\* C8: for a legal input the result is the legal completion whose digits in
\* the unknown cells, read row-major, are lexicographically smallest, and
\* it is None only if there is no legal completion.
C8_FirstCompletionRowMajor ==
  (Done /\ Legal(input)) =>
     LET C == Completions(input)
     IN  /\ ret \in {"sudoku", "None"}
         /\ ret = "None" => C = {}
         /\ C # {} =>
              /\ ret = "sudoku"
              /\ sudoku \in C
              /\ \A h \in C : h = sudoku \/ LexLess(sudoku, h, Unknowns(input))

C8_Witness ==
  /\ Done
  /\ Legal(input)
  /\ ret = "sudoku"
  /\ Cardinality(Completions(input)) >= 2

\* No two invocations active at once were entered with the same grid.
NoRevisit ==
  \A j \in 1 .. Len(stack) : \A k \in 1 .. Len(stack) :
     j < k => stack[j].entry # stack[k].entry

\* C9: for every well-formed input the top-level call ends, with the grid or
\* with None; nothing is raised and no grid is entered twice along one path.
C9_Terminates ==
  /\ <>(Done /\ ret \in {"sudoku", "None"})
  /\ [](ret # "raised")
  /\ []NoRevisit

\* The search of an input with a conflict has ended after recursive calls.
C9_Witness ==
  Done /\ ~Legal(input) /\ ncall >= 2 /\ ret \in {"sudoku", "None"}

\* C10: the invocations nested in the top-level one are at most as many as the
\* unknown cells of the input (at most 81), and each of them stands for one
\* unknown cell assigned by the invocation that called it.
C10_DepthBoundedByUnknowns ==
  /\ NumUnknown <= N * N
  /\ Len(stack) - 1 <= NumUnknown
  /\ \A j \in 1 .. (Len(stack) - 1) :
        /\ stack[j].pc = "call"
        /\ At(input, <<stack[j].x, stack[j].y>>) = 0
        /\ At(sudoku, <<stack[j].x, stack[j].y>>) # 0
        /\ \A k \in 1 .. (Len(stack) - 1) :
              (stack[k].x = stack[j].x /\ stack[k].y = stack[j].y) => k = j
  /\ ret # "sudoku" =>
        AssignedCells = { <<stack[j].x, stack[j].y>> :
                            j \in { k \in 1 .. Len(stack) : stack[k].pc = "call" } }

\* As many nested invocations as the input has unknown cells.
C10_Witness ==
  /\ NumUnknown >= 3
  /\ Len(stack) - 1 = NumUnknown

====
